---- MODULE Spec2Model ----
(***************************************************************************)
(* A model of simulator.py: the edge-weight model (calculate_weights), the *)
(* SEIR stepper (infection) and the effort sweep of the quarantine         *)
(* strategies (random_simulations and its siblings).                       *)
(*                                                                         *)
(* Conventions.                                                            *)
(*  - A graph is a function from the nodes 1..n to the sequence of a       *)
(*    node's successors, in the order G.successors(node) yields them (the  *)
(*    adjacency dict keeps insertion order).  G.nodes() yields 1..n.       *)
(*  - Python floats are modelled as exact rationals <<num, den>>, den > 0, *)
(*    in lowest terms.                                                     *)
(*  - `status is "i"` and `I is 0` compare interned literals and small     *)
(*    ints, and are modelled as equality.                                  *)
(***************************************************************************)
EXTENDS Integers, Sequences, FiniteSets, TLC

VARIABLES
    input_network,  \* the graph handed to calculate_weights / infection
    input_weight,   \* its 'weight' edge attribute
    vaccination,    \* infection's quarantine list, or None
    starts,         \* infection's initial targets
    DELAY,          \* infection's DELAY
    RECALCULATE,    \* infection's RECALCULATE
    network,        \* the private copy a call works on
    weight,         \* the 'weight' attribute of the private copy's edges
    status,         \* node attribute "status"
    age,            \* node attribute "age"
    step,           \* the loop variable of infection's main loop
    pc,             \* where the modelled call stands
    tally,          \* the last (S, E, I, R) written to the data file
    numRecords,     \* step records written so far
    prevStatus,     \* status at the start of the last executed step
    prevAge,        \* age at the start of the last executed step
    attempted,      \* nodes that drew random.uniform for a victim in the last step
    numRemovals,    \* times remove_edges_from ran in this call
    numRecalcs,     \* times calculate_weights ran inside this call
    earlierRemoved, \* an earlier call on the same base graph removed an edge
    unfiltered,     \* a strategy's edge list before the -i / -q filters
    candidates,     \* a strategy's candidate edge list
    filterI,        \* the -i flag (parameter I of the strategies)
    filterQ,        \* the -q flag (parameter Q of the strategies)
    effort,         \* the sweep's loop variable
    strategy,       \* the quarantine list of the last simulated level
    rows,           \* efforts written to the strategy's csv, in order
    simulated,      \* efforts for which infection() was called, in order
    paramRECALCULATE \* the RECALCULATE parameter of the strategy

simVars == <<vaccination, starts, DELAY, RECALCULATE, status, age, step, tally,
             numRecords, prevStatus, prevAge, attempted, numRemovals, numRecalcs,
             earlierRemoved>>
sweepVars == <<unfiltered, candidates, filterI, filterQ, effort, strategy, rows, simulated,
               paramRECALCULATE>>
vars == <<input_network, input_weight, network, weight, pc, simVars, sweepVars>>

(***************************************************************************)
(* Bounds of the model.                                                    *)
(***************************************************************************)
NumNodes == 3       \* the enumerated graphs have 2..NumNodes nodes
MaxEdges == 3       \* edges of the graphs infection() is run on
MaxTargets == 2     \* initial targets of a run
LateDelay == 2      \* DELAY is 0 or LateDelay
MaxVacc == 1        \* quarantine lists of at most this many edges
MaxPath == 12       \* nodes of the two-way path graph
MaxFilterLen == 4   \* edges of the lists the filters are applied to
MaxCandidates == 10 \* candidate list lengths 0..MaxCandidates in the sweep
MaxTotal == 2       \* total_infected of a run ranges over 1..MaxTotal
SweepNodes == 2     \* nodes of the graphs a whole sweep is run on
MaxClusterLen == 4  \* edges of the lists the clustering strategy ranks
ClusterUnit == 2    \* an edge's 'cluster' c stands for the float c / ClusterUnit

\* vaccination = None, and vaccination = a list
None == [supplied |-> FALSE, list |-> <<>>]
List(q) == [supplied |-> TRUE, list |-> q]

Range(s) == {s[k] : k \in DOMAIN s}
Last(seq) == seq[Len(seq)]

RECURSIVE SumSeq(_)
SumSeq(s) == IF s = <<>> THEN 0 ELSE Head(s) + SumSeq(Tail(s))

(***************************************************************************)
(* Exact rationals standing for Python floats.                             *)
(***************************************************************************)
RECURSIVE GCD(_, _)
GCD(a, b) == IF b = 0 THEN a ELSE GCD(b, a % b)

Abs(x) == IF x < 0 THEN -x ELSE x

\* n / d for d # 0, in lowest terms with a positive denominator
Rat(n, d) ==
    LET g == GCD(Abs(n), Abs(d))
        s == IF d < 0 THEN -1 ELSE 1
    IN  <<(s * n) \div g, (s * d) \div g>>

RatLeq(a, b) == a[1] * b[2] <= b[1] * a[2]
Zero == <<0, 1>>
One == <<1, 1>>

(***************************************************************************)
(* Graphs.                                                                 *)
(***************************************************************************)
NodesOf(g) == DOMAIN g
OutDegree(g, n) == Len(g[n])
EdgesOf(g) == UNION {{<<n, g[n][k]>> : k \in 1..Len(g[n])} : n \in NodesOf(g)}

\* Sequences over S without repetition
InjSeqs(S) ==
    UNION {{s \in [1..k -> S] : \A a, b \in 1..k : a # b => s[a] # s[b]} :
           k \in 0..Cardinality(S)}

\* every graph on 1..n without self-loops, in every successor order
GraphsOn(n) ==
    {[m \in 1..n |-> [k \in DOMAIN f[m] |-> IF f[m][k] < m THEN f[m][k] ELSE f[m][k] + 1]] :
        f \in [1..n -> InjSeqs(1..(n - 1))]}

RECURSIVE Reach(_, _)
Reach(g, seen) ==
    LET more == {m \in NodesOf(g) \ seen :
                    \E n \in seen : <<n, m>> \in EdgesOf(g) \/ <<m, n>> \in EdgesOf(g)}
    IN  IF more = {} THEN seen ELSE Reach(g, seen \cup more)

\* create_network keeps one connected component (of the undirected projection)
Connected(g) == Reach(g, {1}) = NodesOf(g)

\* the two-way path 1 - 2 - ... - n; lowFirst gives the order of the successors
PathGraph(n, lowFirst) ==
    [i \in 1..n |->
        LET lo == IF i > 1 THEN <<i - 1>> ELSE <<>>
            hi == IF i < n THEN <<i + 1>> ELSE <<>>
        IN  IF lowFirst THEN lo \o hi ELSE hi \o lo]

(***************************************************************************)
(* calculate_weights                                                       *)
(***************************************************************************)
\* total_degree: the summed out-degree of the successors of node
TotalDegree(g, node) ==
    SumSeq([k \in 1..Len(g[node]) |-> OutDegree(g, g[node][k])])

\* weights[successor], as a numerator over ProbDen(g, node)
ProbNum(g, node, successor) ==
    IF TotalDegree(g, node) > 0 THEN OutDegree(g, successor) ELSE 0

ProbDen(g, node) ==
    IF TotalDegree(g, node) > 0 THEN TotalDegree(g, node) ELSE 1

\* the numerators of weights.items(), in the dict's (insertion) order
WeightItems(g, node) ==
    [k \in 1..Len(g[node]) |-> ProbNum(g, node, g[node][k])]

InitialLargest == 0
InitialSmallest == 2

\* one iteration of the scan for the largest and the smallest weight; ls is
\* <<largest_weight, smallest_weight>>, both as numerators over ProbDen
ScanStep(ls, w) ==
    IF w > ls[1] THEN <<w, ls[2]>>
    ELSE IF w < ls[2] THEN <<ls[1], w>>
    ELSE ls

RECURSIVE ScanWeights(_, _)
ScanWeights(items, ls) ==
    IF items = <<>> THEN ls
    ELSE ScanWeights(Tail(items), ScanStep(ls, Head(items)))

LargestSmallest(g, node) ==
    ScanWeights(WeightItems(g, node),
                <<InitialLargest * ProbDen(g, node), InitialSmallest * ProbDen(g, node)>>)

\* relative_weight of the edge (node, successor)
RelativeWeight(g, node, successor) ==
    LET ls == LargestSmallest(g, node)
    IN  IF ls[1] # ls[2]
        THEN Rat(ProbNum(g, node, successor) - ls[2], ls[1] - ls[2])
        ELSE Zero

\* the 'weight' attribute of every edge of the returned graph
CalculateWeights(g) ==
    [e \in EdgesOf(g) |-> RelativeWeight(g, e[1], e[2])]

(***************************************************************************)
(* infection                                                               *)
(***************************************************************************)
RecoveryAge == 11
IncubationAge == 3
Horizon == 99

\* random.uniform(0, 1) lies in [0, 1): "zero" stands for the draw 0.0 and
\* "high" for a draw above every weight below 1, so that the two draws give
\* both outcomes of `u <= weight` exactly when both are possible.
Draws == {"zero", "high"}

\* random.uniform(0,1) <= network[node][victim]['weight']
Infects(u, w) == IF u = "zero" THEN RatLeq(Zero, w) ELSE RatLeq(One, w)

\* a variant that exposes a victim whatever its status
CanExposeAnyStatus(infect_status, infect) == infect

\* infect_status == "s" and infect == True
CanExpose(infect_status, infect) == infect_status = "s" /\ infect

\* a variant that quarantines in every step from the delay on
QuarantineDueFromDelayOn(s, delay, vacc) == s >= delay /\ vacc.supplied

\* int(step) == int(DELAY), and a quarantine list was supplied
QuarantineDue(s, delay, vacc) == s = delay /\ vacc.supplied

\* a variant that takes each listed pair as (target, source)
RemoveEdgesReversed(g, vacc) ==
    [n \in NodesOf(g) |-> SelectSeq(g[n], LAMBDA m : <<m, n>> \notin Range(vacc.list))]

\* network.remove_edges_from(vaccination): edges not in the graph are ignored
RemoveEdges(g, vacc) ==
    [n \in NodesOf(g) |-> SelectSeq(g[n], LAMBDA m : <<n, m>> \notin Range(vacc.list))]

\* a variant whose recalculation gives every edge the weight 0
WeightsAfterRemovalZeroed(g, w, recalculate) ==
    [e \in EdgesOf(g) |-> IF recalculate THEN Zero ELSE w[e]]

\* the weights after the quarantine block of a step
WeightsAfterRemoval(g, w, recalculate) ==
    IF recalculate THEN CalculateWeights(g) ELSE [e \in EdgesOf(g) |-> w[e]]

\* the (node, victim) pairs for which the first pass of a step draws a random
\* number: a node draws iff it is "i" with age > 0 when it is visited, and no
\* other node's visit makes a node "i" or changes the age of an "i" node
DrawnEdges(g, st, ag) == {e \in EdgesOf(g) : st[e[1]] = "i" /\ ag[e[1]] > 0}

\* the draws that can change the outcome: a victim that is not "s" when the
\* pass starts is never "s" during it, so its draw is not enumerated
DecidingEdges(g, st, ag) == {e \in DrawnEdges(g, st, ag) : st[e[2]] = "s"}

AllDraws(g, st, ag, deciding) ==
    [e \in DrawnEdges(g, st, ag) |->
        IF e \in DOMAIN deciding THEN deciding[e] ELSE "zero"]

\* a variant that lets a node recover one step later
RecoversLate(status0, age0) == status0 = "i" /\ age0 > RecoveryAge

\* if status is "i" and age >= 11
Recovers(status0, age0) == status0 = "i" /\ age0 >= RecoveryAge

\* if status is "e" and age >= 3 and age < 11
BecomesInfectious(status0, age0) ==
    status0 = "e" /\ age0 >= IncubationAge /\ age0 < RecoveryAge

\* the body of the first loop over network.nodes() for one node; s holds the
\* node attributes and the nodes that drew so far
VisitNode(g, w, draws, s, node) ==
    LET status0 == s.status[node]
        age0 == s.age[node]
        st1 == IF Recovers(status0, age0)
               THEN [s.status EXCEPT ![node] = "r"] ELSE s.status
    IN  IF BecomesInfectious(status0, age0)
        THEN [s EXCEPT !.status = [st1 EXCEPT ![node] = "i"]]
        ELSE IF status0 = "e"
        THEN [s EXCEPT !.status = st1, !.age = [s.age EXCEPT ![node] = age0 + 1]]
        ELSE IF status0 = "i"
        THEN IF age0 > 0
             THEN LET exposed == {v \in Range(g[node]) :
                                    CanExpose(st1[v], Infects(draws[<<node, v>>],
                                                              w[<<node, v>>]))}
                  IN  [status |-> [v \in NodesOf(g) |->
                                     IF v \in exposed THEN "e" ELSE st1[v]],
                       age |-> [v \in NodesOf(g) |->
                                     IF v = node THEN age0 + 1
                                     ELSE IF v \in exposed THEN 0 ELSE s.age[v]],
                       attempted |-> IF g[node] # <<>>
                                     THEN s.attempted \cup {node} ELSE s.attempted]
             ELSE [s EXCEPT !.status = st1, !.age = [s.age EXCEPT ![node] = age0 + 1]]
        ELSE [s EXCEPT !.status = st1]

\* for node in network.nodes(): the nodes k..n in turn
RECURSIVE FirstPass(_, _, _, _, _)
FirstPass(g, w, draws, s, k) ==
    IF k \notin NodesOf(g) THEN s
    ELSE FirstPass(g, w, draws, VisitNode(g, w, draws, s, k), k + 1)

Count(st, x) == Cardinality({n \in DOMAIN st : st[n] = x})

\* a variant that counts an exposed node as infectious as well
TallyExposedTwice(st) ==
    [S |-> Count(st, "s") + Count(st, "v"), E |-> Count(st, "e"),
     I |-> Count(st, "i") + Count(st, "e"), R |-> Count(st, "r")]

\* the second loop: S, E, I, R
Tally(st) == [S |-> Count(st, "s") + Count(st, "v"), E |-> Count(st, "e"),
              I |-> Count(st, "i"), R |-> Count(st, "r")]

\* a variant that never leaves the loop early
BreaksNever(I) == FALSE

\* `if I is 0: break`
Breaks(I) == I = 0

\* range(0,99) has a next value after s
HasNextStep(s) == s + 1 < Horizon

NoTally == [S |-> 0, E |-> 0, I |-> 0, R |-> 0]

\* one iteration of `for step in range(0,99)`
Step ==
    /\ pc = "loop"
    /\ LET due == QuarantineDue(step, DELAY, vaccination)
           g1 == IF due THEN RemoveEdges(network, vaccination) ELSE network
           w1 == IF due THEN WeightsAfterRemoval(g1, weight, RECALCULATE) ELSE weight
       IN  \E deciding \in [DecidingEdges(g1, status, age) -> Draws] :
             LET draws == AllDraws(g1, status, age, deciding)
                 s2 == FirstPass(g1, w1, draws,
                                 [status |-> status, age |-> age, attempted |-> {}], 1)
                 t == Tally(s2.status)
             IN  /\ network' = g1
                 /\ weight' = w1
                 /\ numRemovals' = IF due THEN numRemovals + 1 ELSE numRemovals
                 /\ numRecalcs' = IF due /\ RECALCULATE THEN numRecalcs + 1 ELSE numRecalcs
                 /\ status' = s2.status
                 /\ age' = s2.age
                 /\ attempted' = s2.attempted
                 /\ prevStatus' = status
                 /\ prevAge' = age
                 /\ tally' = t
                 /\ numRecords' = numRecords + 1
                 /\ IF ~Breaks(t.I) /\ HasNextStep(step)
                    THEN step' = step + 1 /\ pc' = "loop"
                    ELSE step' = step /\ pc' = "done"
    /\ UNCHANGED <<input_network, input_weight, vaccination, starts, DELAY,
                   RECALCULATE, earlierRemoved, sweepVars>>

\* quarantine lists: at most MaxVacc distinct edges of the graph
QuarantineLists(g) ==
    {List(q) : q \in UNION {{r \in [1..k -> EdgesOf(g)] :
                                  \A a, b \in 1..k : a # b => r[a] # r[b]} :
                             k \in 0..MaxVacc}}

SweepIdle ==
    /\ unfiltered = <<>>
    /\ candidates = <<>>
    /\ filterI = FALSE
    /\ filterQ = FALSE
    /\ effort = 0
    /\ strategy = <<>>
    /\ rows = <<>>
    /\ simulated = <<>>
    /\ paramRECALCULATE = TRUE

\* a variant that leaves out the loop over starts
StartStatusAllSusceptible(targets, n) == "s"

\* a variant that starts the targets as exposed
StartStatusExposed(targets, n) == IF n \in targets THEN "e" ELSE "s"

\* "Set the default to susceptable", then "Assign the infected"
StartStatus(targets, n) == IF n \in targets THEN "i" ELSE "s"

\* infection() up to its main loop, on the graph g with the edge weights w:
\* the private copy, every node "s" with age 0, the targets "i"
InfectionStartOn(g, w, targets, vacc, delay, recalc) ==
    /\ input_network = g
    /\ input_weight = w
    /\ starts = targets
    /\ vaccination = vacc
    /\ DELAY = delay
    /\ RECALCULATE = recalc
    /\ network = g
    /\ weight = w
    /\ status = [n \in NodesOf(g) |-> StartStatus(targets, n)]
    /\ age = [n \in NodesOf(g) |-> 0]
    /\ prevStatus = [n \in NodesOf(g) |-> StartStatus(targets, n)]
    /\ prevAge = [n \in NodesOf(g) |-> 0]
    /\ attempted = {}
    /\ step = 0
    /\ pc = "loop"
    /\ tally = NoTally
    /\ numRecords = 0
    /\ numRemovals = 0
    /\ numRecalcs = 0
    /\ earlierRemoved = FALSE

\* a call of infection on the base graph, up to its main loop, as a step of
\* the caller
Call(targets, vacc, delay, recalc) ==
    /\ starts' = targets
    /\ vaccination' = vacc
    /\ DELAY' = delay
    /\ RECALCULATE' = recalc
    /\ network' = input_network
    /\ weight' = input_weight
    /\ status' = [n \in NodesOf(input_network) |-> StartStatus(targets, n)]
    /\ age' = [n \in NodesOf(input_network) |-> 0]
    /\ prevStatus' = [n \in NodesOf(input_network) |-> StartStatus(targets, n)]
    /\ prevAge' = [n \in NodesOf(input_network) |-> 0]
    /\ attempted' = {}
    /\ step' = 0
    /\ pc' = "loop"
    /\ tally' = NoTally
    /\ numRecords' = 0
    /\ numRemovals' = 0
    /\ numRecalcs' = 0
    /\ UNCHANGED <<input_network, input_weight>>

\* infection() up to its main loop, on a graph weighted by create_network
InfectionStart(g, targets, vacc, delay, recalc) ==
    InfectionStartOn(g, CalculateWeights(g), targets, vacc, delay, recalc)

\* the graphs create_network can hand to infection: one connected component
SimGraphs ==
    {g \in UNION {GraphsOn(n) : n \in 2..NumNodes} :
        Connected(g) /\ Cardinality(EdgesOf(g)) <= MaxEdges}

\* the graph of two nodes with the single edge from src to the other node
OneEdge(src) == [n \in 1..2 |-> IF n = src THEN <<3 - src>> ELSE <<>>]

\* every edge with the weight 1.0
UnitWeights(g) == [e \in EdgesOf(g) |-> One]

\* a call of infection on a connected graph weighted by create_network, or on
\* a one-edge graph whose caller has set the weight 1.0
Init ==
    /\ SweepIdle
    /\ \/ \E g \in SimGraphs :
          \E targets \in {t \in SUBSET NodesOf(g) : Cardinality(t) <= MaxTargets},
             delay \in {0, LateDelay} :
               \/ InfectionStart(g, targets, None, delay, TRUE)
               \/ \E vacc \in QuarantineLists(g), recalc \in BOOLEAN :
                     InfectionStart(g, targets, vacc, delay, recalc)
       \/ \E lowFirst \in BOOLEAN, t \in {1, MaxPath} :
               InfectionStart(PathGraph(MaxPath, lowFirst), {t}, None, 0, TRUE)
       \/ \E src \in 1..2 :
               InfectionStartOn(OneEdge(src), UnitWeights(OneEdge(src)), {src}, None, 0, TRUE)

Next == Step

Spec == Init /\ [][Next]_vars

(***************************************************************************)
(* Several calls of infection, one after the other, on one base graph.     *)
(***************************************************************************)
\* the arguments Init draws for a call on the base graph g with weights w
RunInputs(g, w) ==
    IF w # CalculateWeights(g)
    THEN [starts : {{n} : n \in {m \in NodesOf(g) : g[m] # <<>>}},
          vaccination : {None}, DELAY : {0}, RECALCULATE : {TRUE}]
    ELSE IF Cardinality(NodesOf(g)) > NumNodes
    THEN [starts : {{1}, {MaxPath}},
          vaccination : {None}, DELAY : {0}, RECALCULATE : {TRUE}]
    ELSE {a \in [starts : {t \in SUBSET NodesOf(g) : Cardinality(t) <= MaxTargets},
                  vaccination : {None} \cup QuarantineLists(g),
                  DELAY : {0, LateDelay},
                  RECALCULATE : BOOLEAN] :
             a.vaccination = None => a.RECALCULATE}

\* the call returns and the caller calls infection again on the base graph
NewRun ==
    /\ pc = "done"
    /\ \E a \in RunInputs(input_network, input_weight) :
          Call(a.starts, a.vaccination, a.DELAY, a.RECALCULATE)
    /\ earlierRemoved' = (earlierRemoved \/ EdgesOf(network) # EdgesOf(input_network))
    /\ UNCHANGED sweepVars

NextRuns == Step \/ NewRun

SpecRuns == Init /\ [][NextRuns]_vars

(***************************************************************************)
(* calculate_weights as a call of its own.                                 *)
(***************************************************************************)
SimIdle ==
    /\ vaccination = None
    /\ starts = {}
    /\ DELAY = 0
    /\ RECALCULATE = TRUE
    /\ status = <<>>
    /\ age = <<>>
    /\ prevStatus = <<>>
    /\ prevAge = <<>>
    /\ attempted = {}
    /\ step = 0
    /\ tally = NoTally
    /\ numRecords = 0
    /\ numRemovals = 0
    /\ numRecalcs = 0
    /\ earlierRemoved = FALSE

\* the graphs calculate_weights is called on by create_network
WeightGraphs == {g \in UNION {GraphsOn(n) : n \in 2..NumNodes} : Connected(g)}

InitWeights ==
    /\ SimIdle
    /\ SweepIdle
    /\ input_network \in WeightGraphs
    /\ input_weight = <<>>
    /\ network = <<>>
    /\ weight = <<>>
    /\ pc = "call"

\* a variant without the copy: the weights are written to the input graph
CalcWeightsInPlace ==
    /\ pc = "call"
    /\ network' = input_network
    /\ weight' = CalculateWeights(input_network)
    /\ input_weight' = CalculateWeights(input_network)
    /\ pc' = "returned"
    /\ UNCHANGED <<input_network, simVars, sweepVars>>

\* G = input_network.copy(); ...; return G
CalcWeights ==
    /\ pc = "call"
    /\ network' = input_network
    /\ weight' = CalculateWeights(input_network)
    /\ pc' = "returned"
    /\ UNCHANGED <<input_network, input_weight, simVars, sweepVars>>

NextWeights == CalcWeights

SpecWeights == InitWeights /\ [][NextWeights]_vars

(***************************************************************************)
(* The -i / -q filters of the strategies.                                  *)
(***************************************************************************)
RemoveAt(list, k) == SubSeq(list, 1, k - 1) \o SubSeq(list, k + 1, Len(list))

\* for i,j in randoms: if network[i][j]["international"] == False:
\*     randoms.remove((i,j))
\* The for loop reads position k, then k + 1, ... of the list as it is then;
\* the edges of a list are distinct, so remove() deletes the one just read.
RECURSIVE RemoveNotInternational(_, _)
RemoveNotInternational(list, k) ==
    IF k > Len(list) THEN list
    ELSE IF list[k].international = FALSE
         THEN RemoveNotInternational(RemoveAt(list, k), k + 1)
         ELSE RemoveNotInternational(list, k + 1)

\* no edge has a "domestic" attribute (create_network sets "international"
\* only), so the body of the -q loop raises KeyError for the first edge
DomesticLookupRaises(list) == list # <<>>

\* lists of at most MaxFilterLen edges, each flagged international or not
FlaggedLists ==
    UNION {{[k \in 1..n |-> [edge |-> <<k, k + 1>>, international |-> f[k]]] :
                f \in [1..n -> BOOLEAN]} : n \in 0..MaxFilterLen}

InitFilter ==
    /\ SimIdle
    /\ input_network = <<>>
    /\ input_weight = <<>>
    /\ network = <<>>
    /\ weight = <<>>
    /\ unfiltered \in FlaggedLists
    /\ candidates = unfiltered
    /\ filterI \in BOOLEAN
    /\ filterQ \in BOOLEAN
    /\ effort = 0
    /\ strategy = None
    /\ rows = <<>>
    /\ simulated = <<>>
    /\ paramRECALCULATE = TRUE
    /\ pc = "filter"

\* if I: ...   if Q: ...
FilterCandidates ==
    /\ pc = "filter"
    /\ LET afterI == IF filterI THEN RemoveNotInternational(candidates, 1)
                     ELSE candidates
       IN  /\ candidates' = afterI
           /\ pc' = IF filterQ /\ DomesticLookupRaises(afterI)
                    THEN "KeyError" ELSE "filtered"
    /\ UNCHANGED <<input_network, input_weight, network, weight, simVars,
                   unfiltered, filterI, filterQ, effort, strategy, rows, simulated,
                   paramRECALCULATE>>

NextFilter == FilterCandidates

SpecFilter == InitFilter /\ [][NextFilter]_vars

(***************************************************************************)
(* The candidate list of the clustering strategy.                          *)
(***************************************************************************)
\* the upper limit of lines 586: the 'cluster' value 2
ClusterLimit == 2

\* a variant without the test cluster > 0
ClusterBelowLimit(c) == c < ClusterLimit * ClusterUnit

\* cluster < 2 and cluster > 0
ClusterInRange(c) == c < ClusterLimit * ClusterUnit /\ c > 0

\* sorted(clusters, key=lambda k: k[2]['cluster'], reverse=True): the sort is
\* stable, so edges with equal 'cluster' keep their order
RECURSIVE SortedCluster(_)
SortedCluster(list) ==
    IF list = <<>> THEN <<>>
    ELSE LET h == Head(list)
             rest == SortedCluster(Tail(list))
         IN  SelectSeq(rest, LAMBDA r : r.cluster > h.cluster) \o <<h>> \o
             SelectSeq(rest, LAMBDA r : r.cluster <= h.cluster)

\* cluster = list(); for cluster_item in sorted_cluster: ... cluster.append
ClusterCandidates(list) ==
    SelectSeq(SortedCluster(list), LAMBDA r : ClusterInRange(r.cluster))

\* network.edges(data=True): at most MaxClusterLen edges; 'cluster' is the
\* sum of two clustering coefficients, each in [0, 1]
ClusterLists ==
    UNION {{[k \in 1..n |-> [edge |-> <<k, k + 1>>, international |-> f[k],
                              cluster |-> c[k]]] :
                f \in [1..n -> BOOLEAN], c \in [1..n -> 0..(2 * ClusterUnit)]} :
           n \in 0..MaxClusterLen}

InitCluster ==
    /\ SimIdle
    /\ input_network = <<>>
    /\ input_weight = <<>>
    /\ network = <<>>
    /\ weight = <<>>
    /\ unfiltered \in ClusterLists
    /\ candidates = unfiltered
    /\ filterI \in BOOLEAN
    /\ filterQ \in BOOLEAN
    /\ effort = 0
    /\ strategy = None
    /\ rows = <<>>
    /\ simulated = <<>>
    /\ paramRECALCULATE = TRUE
    /\ pc = "filter"

\* sorted_cluster = sorted(...); cluster = list(); for cluster_item in ...
RankClusters ==
    /\ pc = "filtered"
    /\ candidates' = ClusterCandidates(candidates)
    /\ pc' = "ranked"
    /\ UNCHANGED <<input_network, input_weight, network, weight, simVars,
                   unfiltered, filterI, filterQ, effort, strategy, rows, simulated,
                   paramRECALCULATE>>

NextCluster == FilterCandidates \/ RankClusters

SpecCluster == InitCluster /\ [][NextCluster]_vars

(***************************************************************************)
(* The effort sweep of a strategy for one target set.                      *)
(***************************************************************************)
FirstEffort == 1
EffortStop == 101
EffortStride == 5
Percent == 100

\* int(x / 100) for x >= 0.  The code computes int(len * (effort/100)) in
\* floats; for the lengths and efforts of this model that is the exact floor.
Floor100(x) == x \div Percent

\* list[0:m]: a negative m counts from the end of the list
PySlice(list, m) ==
    IF m >= 0 THEN SubSeq(list, 1, IF m < Len(list) THEN m ELSE Len(list))
    ELSE SubSeq(list, 1, IF Len(list) + m > 0 THEN Len(list) + m ELSE 0)

\* max_index = int(len(randoms) * (effort/100)) - 1
MaxIndex(list, e) == Floor100(Len(list) * e) - 1

\* strategy = randoms[0:max_index]
Strategy(list, e) == PySlice(list, MaxIndex(list, e))

\* range(from, 101, 5) as a sequence
RECURSIVE EffortRange(_)
EffortRange(from) ==
    IF from >= EffortStop THEN <<>> ELSE <<from>> \o EffortRange(from + EffortStride)

Row(e, total) == [effort |-> e, total |-> total]

\* total_infected of one run of infection()
Totals == 1..MaxTotal

InitSweep ==
    /\ SimIdle
    /\ input_network = <<>>
    /\ input_weight = <<>>
    /\ network = <<>>
    /\ weight = <<>>
    /\ unfiltered = <<>>
    /\ \E n \in 0..MaxCandidates : candidates = [k \in 1..n |-> <<k, k + 1>>]
    /\ filterI = FALSE
    /\ filterQ = FALSE
    /\ effort = 0
    /\ strategy = None
    /\ rows = <<>>
    /\ simulated = <<>>
    /\ paramRECALCULATE = TRUE
    /\ pc = "baseline"

\* "Generate a baseline": infection(network, None, target, ...)
Baseline ==
    /\ pc = "baseline"
    /\ \E total \in Totals : rows' = <<Row(0, total)>>
    /\ strategy' = None
    /\ simulated' = <<0>>
    /\ effort' = FirstEffort
    /\ pc' = "levels"
    /\ UNCHANGED <<input_network, input_weight, network, weight, simVars,
                   unfiltered, candidates, filterI, filterQ, paramRECALCULATE>>

\* one iteration of `for effort in range(1,101,5)`, the early exit included
Level ==
    /\ pc = "levels"
    /\ strategy' = List(Strategy(candidates, effort))
    /\ simulated' = Append(simulated, effort)
    /\ \E total \in Totals :
          IF total = 1
          THEN /\ rows' = Append(rows, Row(effort, total)) \o
                          [k \in 1..Len(EffortRange(effort + EffortStride)) |->
                              Row(EffortRange(effort + EffortStride)[k], total)]
               /\ effort' = effort
               /\ pc' = "closed"
          ELSE /\ rows' = Append(rows, Row(effort, total))
               /\ IF effort + EffortStride < EffortStop
                  THEN effort' = effort + EffortStride /\ pc' = "levels"
                  ELSE effort' = effort /\ pc' = "closed"
    /\ UNCHANGED <<input_network, input_weight, network, weight, simVars,
                   unfiltered, candidates, filterI, filterQ, paramRECALCULATE>>

NextSweep == Baseline \/ Level

SpecSweep == InitSweep /\ [][NextSweep]_vars

(***************************************************************************)
(* The effort sweep of a strategy for one target set, with its runs of     *)
(* infection.                                                              *)
(***************************************************************************)
\* the RECALCULATE that infection uses when its caller passes none
DefaultRECALCULATE == TRUE

\* total_infected = results["Infected"] + results["Recovered"]
TotalInfected(t) == t.I + t.R

\* the graphs the sweep is run on
SweepGraphs == {g \in SimGraphs : Cardinality(NodesOf(g)) <= SweepNodes}

\* the strategy is about to generate its baseline; the candidates are all
\* the edges of the network in the order the strategy ranked them
InitStrategy ==
    /\ \E g \in SweepGraphs :
          /\ input_network = g
          /\ input_weight = CalculateWeights(g)
          /\ starts \in {t \in SUBSET NodesOf(g) : Cardinality(t) <= MaxTargets}
          /\ candidates \in {q \in InjSeqs(EdgesOf(g)) : Range(q) = EdgesOf(g)}
    /\ DELAY \in {0, LateDelay}
    /\ paramRECALCULATE \in BOOLEAN
    /\ unfiltered = candidates
    /\ filterI = FALSE
    /\ filterQ = FALSE
    /\ effort = 0
    /\ strategy = None
    /\ rows = <<>>
    /\ simulated = <<>>
    /\ vaccination = None
    /\ RECALCULATE = DefaultRECALCULATE
    /\ network = <<>>
    /\ weight = <<>>
    /\ status = <<>>
    /\ age = <<>>
    /\ prevStatus = <<>>
    /\ prevAge = <<>>
    /\ attempted = {}
    /\ step = 0
    /\ tally = NoTally
    /\ numRecords = 0
    /\ numRemovals = 0
    /\ numRecalcs = 0
    /\ earlierRemoved = FALSE
    /\ pc = "baseline"

\* results = infection(network, strategy, target, DELAY=DELAY, ...) for the
\* level e, up to the main loop of infection
CallLevel(e) ==
    /\ effort' = e
    /\ strategy' = List(Strategy(candidates, e))
    /\ Call(starts, List(Strategy(candidates, e)), DELAY, DefaultRECALCULATE)

\* "Generate a baseline": results = infection(network, None, target, ...)
CallBaseline ==
    /\ pc = "baseline"
    /\ Call(starts, None, DELAY, DefaultRECALCULATE)
    /\ simulated' = <<0>>
    /\ UNCHANGED <<unfiltered, candidates, filterI, filterQ, effort, strategy, rows,
                   paramRECALCULATE, earlierRemoved>>

\* the row of the last simulated effort is written and has the total 1
ClosedEarly ==
    /\ Len(simulated) > 1
    /\ Len(rows) >= Len(simulated)
    /\ rows[Len(simulated)].total = 1

\* infection returns to the sweep: the row is written; after the baseline and
\* after a level whose total is not 1 the next level is called, if there is
\* one; a level with the total 1 fills in the remaining rows and breaks
LevelReturn ==
    /\ pc = "done"
    /\ Len(rows) < Len(simulated)
    /\ LET total == TotalInfected(tally)
           next == IF effort = 0 THEN FirstEffort ELSE effort + EffortStride
       IN  IF effort # 0 /\ total = 1
           THEN /\ rows' = Append(rows, Row(effort, total)) \o
                           [k \in 1..Len(EffortRange(next)) |->
                               Row(EffortRange(next)[k], total)]
                /\ pc' = "closed"
                /\ UNCHANGED <<input_network, input_weight, network, weight,
                               vaccination, starts, DELAY, RECALCULATE, status, age,
                               step, tally, numRecords, prevStatus, prevAge,
                               attempted, numRemovals, numRecalcs, effort, strategy,
                               simulated>>
           ELSE /\ rows' = Append(rows, Row(effort, total))
                /\ IF next < EffortStop
                   THEN /\ CallLevel(next)
                        /\ simulated' = Append(simulated, next)
                   ELSE /\ pc' = "closed"
                        /\ UNCHANGED <<input_network, input_weight, network, weight,
                                       vaccination, starts, DELAY, RECALCULATE, status,
                                       age, step, tally, numRecords, prevStatus,
                                       prevAge, attempted, numRemovals, numRecalcs,
                                       effort, strategy, simulated>>
    /\ UNCHANGED <<unfiltered, candidates, filterI, filterQ, paramRECALCULATE,
                   earlierRemoved>>

\* the body of the effort loop for a level above the one that broke the loop:
\* the simulation whose row the early exit filled in without running it
DirectSimulation ==
    /\ pc \in {"closed", "done"}
    /\ ClosedEarly
    /\ \E e \in Range(EffortRange(Last(simulated) + EffortStride)) : CallLevel(e)
    /\ UNCHANGED <<unfiltered, candidates, filterI, filterQ, rows, simulated,
                   paramRECALCULATE, earlierRemoved>>

NextStrategy == CallBaseline \/ Step \/ LevelReturn \/ DirectSimulation

SpecStrategy == InitStrategy /\ [][NextStrategy]_vars

(***************************************************************************)
(* Properties of infection, checked under Spec.                            *)
(***************************************************************************)
Arrow(a, b) ==
    \/ a = "s" /\ b = "e"
    \/ a = "e" /\ b = "i"
    \/ a = "i" /\ b = "r"

\* C1: from one step to the next every node keeps its status or moves along
\* exactly one arrow of s -> e -> i -> r; in particular "r" is kept for ever.
C1_StatusFollowsArrows ==
    [][\A n \in DOMAIN status :
          status'[n] = status[n] \/ Arrow(status[n], status'[n])]_vars

\* a node that was not a target has gone all the way from "s" to "r"
C1_Witness ==
    \E n \in DOMAIN status : n \notin starts /\ status[n] = "r"

\* C8: a node that recovers in a step (it was "i" with age >= 11) draws for no
\* victim in that step; only nodes that are "i" with 0 < age < 11 draw.
C8_RecoveryBeforePropagation ==
    \A n \in attempted :
        /\ prevStatus[n] = "i"
        /\ prevAge[n] > 0
        /\ prevAge[n] < RecoveryAge
        /\ status[n] # "r"

\* C9: the loop runs steps 0, 1, 2, ... and writes one record per step; it is
\* left at the first record with I = 0 and otherwise after step 98, so a
\* finished run has 1..99 records and no step follows a record with I = 0.
C9_StopsAtZeroOrHorizon ==
    /\ numRecords <= Horizon
    /\ pc = "loop" => numRecords = step /\ step < Horizon
    /\ pc = "loop" /\ numRecords >= 1 => tally.I # 0
    /\ pc = "done" => /\ numRecords = step + 1
                      /\ numRecords >= 1
                      /\ tally.I = 0 \/ numRecords = Horizon

\* a run that is stopped by the horizon with a node still infectious
C9_Witness == pc = "done" /\ numRecords = Horizon /\ tally.I > 0

InDegree(g, n) == Cardinality({e \in EdgesOf(g) : e[2] = n})

\* C10: with t the last executed step, the run's graph has the input's edges
\* when t < DELAY or no list was supplied, and the input's edges minus the
\* list when a list was supplied and t >= DELAY; edges are removed at most
\* once, no node is removed and no in-degree grows; the weights are those of
\* calculate_weights on the reduced graph if RECALCULATE, else the input's.
C10_QuarantineAtDelay ==
    LET reached == vaccination.supplied /\ numRecords >= 1 /\ numRecords - 1 >= DELAY
    IN  /\ numRemovals = IF reached THEN 1 ELSE 0
        /\ numRecalcs = IF reached /\ RECALCULATE THEN 1 ELSE 0
        /\ NodesOf(network) = NodesOf(input_network)
        /\ EdgesOf(network) =
              IF reached THEN EdgesOf(input_network) \ Range(vaccination.list)
              ELSE EdgesOf(input_network)
        /\ \A n \in NodesOf(network) : InDegree(network, n) <= InDegree(input_network, n)
        /\ DOMAIN weight = EdgesOf(network)
        /\ \A e \in EdgesOf(network) :
              weight[e] = IF reached /\ RECALCULATE
                          THEN RelativeWeight(network, e[1], e[2])
                          ELSE input_weight[e]

\* a late quarantine has removed an edge, and the recalculation has changed
\* the weight of an edge that is left
C10_Witness ==
    /\ numRemovals = 1
    /\ DELAY = LateDelay
    /\ EdgesOf(network) # EdgesOf(input_network)
    /\ \E e \in EdgesOf(network) : weight[e] # input_weight[e]

ScenarioA ==
    /\ Cardinality(NodesOf(input_network)) = 2
    /\ Cardinality(EdgesOf(input_network)) = 1
    /\ input_weight = UnitWeights(input_network)
    /\ \E e \in EdgesOf(input_network) : starts = {e[1]}
    /\ ~vaccination.supplied

\* C15: in scenario A the destination is "s" until 3 steps have run, "e"
\* from then until 3 more have run, "i" when 6 steps have run, and the
\* finished run has Infected + Recovered = 2.
C15_ScenarioATimeline ==
    ScenarioA =>
        LET dest == CHOOSE n \in NodesOf(input_network) : n \notin starts
        IN  /\ numRecords < 3 => status[dest] = "s"
            /\ (numRecords >= 3 /\ numRecords < 6) => status[dest] = "e"
            /\ numRecords = 6 => status[dest] = "i"
            /\ pc = "done" => TotalInfected(tally) = 2

\* the only target has no out-edge in the base graph
SingleSinkTarget ==
    /\ Cardinality(starts) = 1
    /\ \A t \in starts : input_network[t] = <<>>

\* C16: with a single target that has no out-edges, whatever the list and
\* the delay: each of the first 11 records (steps 0..10) has I = 1 and
\* E = R = 0, the target being "i" with age = the number of steps run; the
\* 12th step finds age 11, makes the target "r" and ends the run with I = 0
\* and I + R = 1.
C16_IsolatedTargetRecoversAlone ==
    SingleSinkTarget =>
        LET t == CHOOSE n \in starts : TRUE
        IN  /\ numRecords <= 12
            /\ numRecords < 12 =>
                  /\ pc = "loop"
                  /\ status[t] = "i"
                  /\ age[t] = numRecords
                  /\ numRecords >= 1 => tally.I = 1 /\ tally.E = 0 /\ tally.R = 0
            /\ numRecords = 12 =>
                  /\ pc = "done"
                  /\ prevAge[t] = 11
                  /\ status[t] = "r"
                  /\ tally.I = 0 /\ tally.E = 0 /\ tally.R = 1

\* such a run has ended after a late quarantine removed an edge
C16_Witness ==
    /\ SingleSinkTarget
    /\ pc = "done"
    /\ DELAY = LateDelay
    /\ numRemovals = 1
    /\ EdgesOf(network) # EdgesOf(input_network)

\* C17: a call with an empty target set executes no step and writes no step
\* record.
C17_EmptyTargetsRunNoStep ==
    starts = {} => numRecords = 0 /\ pc # "done"

\* C20: at the end of every step, a node that is "e" or "i" and was so before
\* the step has an age one higher; a node that entered "e" or "i" in the step
\* has spent no full step in it, age 0 (1 if the step of entry is counted);
\* age is never negative.
C20_AgeCountsStepsInState ==
    [][\A n \in DOMAIN status :
          /\ age'[n] >= 0
          /\ status'[n] \in {"e", "i"} =>
                IF status'[n] = status[n] THEN age'[n] = age[n] + 1
                ELSE age'[n] \in {0, 1}]_vars

\* C21: every record counts each node once, by its status after the first
\* pass of the step: S, E, I and R are the numbers of nodes that are then
\* "s", "e", "i" and "r", and they add up to the number of nodes.
C21_RecordCountsEveryNodeOnce ==
    numRecords >= 1 =>
        /\ tally.S = Cardinality({n \in NodesOf(network) : status[n] = "s"})
        /\ tally.E = Cardinality({n \in NodesOf(network) : status[n] = "e"})
        /\ tally.I = Cardinality({n \in NodesOf(network) : status[n] = "i"})
        /\ tally.R = Cardinality({n \in NodesOf(network) : status[n] = "r"})
        /\ tally.S + tally.E + tally.I + tally.R = Cardinality(NodesOf(input_network))

\* a record in which all four counts are positive
C21_Witness ==
    numRecords >= 1 /\ tally.S > 0 /\ tally.E > 0 /\ tally.I > 0 /\ tally.R > 0

\* the in-edges of n in the base graph, if it has any, are all on the list
CutOffAtStart(n) ==
    /\ vaccination.supplied
    /\ DELAY = 0
    /\ n \notin starts
    /\ InDegree(input_network, n) > 0
    /\ \A e \in EdgesOf(input_network) : e[2] = n => e \in Range(vaccination.list)

\* C24: a node that left "s" in the last step is "e" and is the successor,
\* along an edge of the run's graph as it is after that step's quarantine
\* block, of a node that was "i" with age > 0 when the step started; the
\* nodes that drew were all "i" with age > 0 when the step started, so none
\* became "i" in that step; a node that is not a target and whose in-edges
\* are all removed at delay 0 is "s" throughout.
C24_ExposureOnlyAlongPresentEdges ==
    /\ numRecords >= 1 =>
          /\ \A n \in NodesOf(network) :
                (prevStatus[n] = "s" /\ status[n] # "s") =>
                    /\ status[n] = "e"
                    /\ \E m \in NodesOf(network) :
                          /\ <<m, n>> \in EdgesOf(network)
                          /\ prevStatus[m] = "i"
                          /\ prevAge[m] > 0
          /\ \A m \in attempted : prevStatus[m] = "i" /\ prevAge[m] > 0
    /\ \A n \in NodesOf(network) : CutOffAtStart(n) => status[n] = "s"

\* a finished run in which the infection reached a node that was not a
\* target while a node cut off at delay 0 stayed "s"
C24_Witness ==
    /\ pc = "done"
    /\ \E n \in NodesOf(network) : CutOffAtStart(n)
    /\ \E m \in NodesOf(network) : m \notin starts /\ status[m] = "r"

\* C27: when the run has stopped on a record with I = 0, no node is exposed:
\* the returned S + I + R is the number of nodes, and Infected + Recovered
\* counts every node that is no longer susceptible.
C27_NoExposedWhenInfectionDiesOut ==
    (pc = "done" /\ tally.I = 0) =>
        /\ tally.E = 0
        /\ \A n \in NodesOf(network) : status[n] # "e"
        /\ tally.S + tally.I + tally.R = Cardinality(NodesOf(input_network))
        /\ tally.I + tally.R =
              Cardinality({n \in NodesOf(network) : status[n] # "s"})

\* C26: in every record I + R is at least the number of targets, every
\* target being "i" or "r"; so a run whose result has Infected + Recovered
\* = 1, the condition of the early exit, has exactly one target.
C26_TargetsStayInfectedOrRecovered ==
    /\ \A t \in starts : status[t] \in {"i", "r"}
    /\ numRecords >= 1 =>
          /\ tally.I + tally.R >= Cardinality(starts)
          /\ tally.I + tally.R = 1 => Cardinality(starts) = 1

\* a finished run with the most targets in which nothing spread: I + R is
\* exactly the number of targets
C26_Witness ==
    /\ pc = "done"
    /\ Cardinality(starts) = MaxTargets
    /\ tally.I + tally.R = Cardinality(starts)
    /\ tally.S > 0

\* the nodes that moved from "s" to "e" in the last executed step
NewlyExposed == {n \in NodesOf(network) : prevStatus[n] = "s" /\ status[n] = "e"}

\* steps from a node's S->E step to its E->I step, given its age at the end
\* of the S->E step: every later step adds one until a step finds the age at
\* IncubationAge and moves the node to "i"
ExposedSteps(entryAge) == IncubationAge + 1 - entryAge

\* C28: every exposed node spends the same number of steps between its S->E
\* and its E->I transition, whether it is visited before or after the node
\* that infects it: two nodes exposed in the same step leave "e" in the
\* same step.
C28_IncubationIndependentOfVisitOrder ==
    \A n \in NewlyExposed : \A m \in NewlyExposed :
        ExposedSteps(age[n]) = ExposedSteps(age[m])

(***************************************************************************)
(* Properties of a sweep with its runs, checked under SpecStrategy.        *)
(***************************************************************************)
\* C13: after a level with the total 1 has broken the effort loop, a direct
\* simulation of any higher level ends with the total that the early exit
\* wrote into that level's row, which is 1.
C13_FillForwardIsDirectSimulation ==
    (ClosedEarly /\ pc = "done" /\ effort > Last(simulated)) =>
        /\ TotalInfected(tally) = 1
        /\ \A k \in DOMAIN rows :
              rows[k].effort = effort => rows[k].total = TotalInfected(tally)

\* C14: a sweep that no level cut short ends with the level 100, whose
\* quarantine list holds every candidate; the candidates being all the edges
\* of the graph, with delay 0 that run ends with I + R equal to the number
\* of targets and with no node exposed.
C14_FullEffortStopsSpread ==
    (pc = "closed" /\ ~ClosedEarly) =>
        /\ Last(simulated) = Percent
        /\ strategy.list = candidates
        /\ DELAY = 0 =>
              /\ TotalInfected(tally) = Cardinality(starts)
              /\ tally.E = 0
              /\ tally.S = Cardinality(NodesOf(network)) - Cardinality(starts)

\* C19: with recalculation disabled for the strategy, no run it starts
\* recalculates the weights: every edge of the run's graph has the weight
\* it has in the base graph.
C19_DisabledRecalculationKeepsWeights ==
    (~paramRECALCULATE /\ pc \in {"loop", "done"}) =>
        /\ numRecalcs = 0
        /\ \A e \in EdgesOf(network) : weight[e] = input_weight[e]

\* C25: the rows of a sweep are in strictly increasing order of effort, a
\* finished sweep has exactly one row for each of its levels (the baseline
\* and every effort of the loop), and once the row of a simulated level has
\* the total 1, the sweep simulates no higher level and every later row has
\* the total 1.
C25_OneRowPerLevelAndEarlyExit ==
    /\ \A k \in 1..(Len(rows) - 1) : rows[k].effort < rows[k + 1].effort
    /\ pc = "closed" =>
          [k \in DOMAIN rows |-> rows[k].effort] = <<0>> \o EffortRange(FirstEffort)
    /\ \A k \in DOMAIN rows :
          rows[k].total = 1 =>
              /\ \A j \in DOMAIN rows : j > k => rows[j].total = 1
              /\ \A e \in Range(simulated) : e <= rows[k].effort

(***************************************************************************)
(* Properties of consecutive calls of infection, checked under SpecRuns.   *)
(***************************************************************************)
\* no step of the current call has run yet, and the call works on a copy that
\* equals the base graph, with the targets "i", the other nodes "s", all age 0
RunIsFresh ==
    numRecords = 0 =>
        /\ network = input_network
        /\ weight = input_weight
        /\ status = [n \in NodesOf(input_network) |-> IF n \in starts THEN "i" ELSE "s"]
        /\ age = [n \in NodesOf(input_network) |-> 0]

\* C11: no step and no new call changes the base graph (its nodes, edges and
\* edge weights), and every call, the first and each later one, starts from
\* the base graph with exactly its targets "i", every other node "s" and
\* every age 0, whatever the earlier calls did to their copies.  (The state
\* before and the state after each step are both examined, so the start of
\* the first call is covered as well.)
C11_BaseGraphUntouched ==
    [][/\ input_network' = input_network
       /\ input_weight' = input_weight
       /\ RunIsFresh
       /\ RunIsFresh']_vars

\* a later call starts after an earlier call removed an edge from its copy
C11_Witness ==
    /\ earlierRemoved
    /\ numRecords = 0
    /\ starts # {}
    /\ vaccination.supplied
    /\ EdgesOf(network) = EdgesOf(input_network)

(***************************************************************************)
(* Properties of calculate_weights, checked under SpecWeights.             *)
(***************************************************************************)
RECURSIVE MaxOf(_)
MaxOf(items) ==
    IF Len(items) = 1 THEN Head(items)
    ELSE LET m == MaxOf(Tail(items)) IN IF Head(items) > m THEN Head(items) ELSE m

RECURSIVE MinOf(_)
MinOf(items) ==
    IF Len(items) = 1 THEN Head(items)
    ELSE LET m == MinOf(Tail(items)) IN IF Head(items) < m THEN Head(items) ELSE m

\* C2: every edge of the returned graph has a weight w with 0 <= w <= 1.
C2_WeightsInUnitInterval ==
    pc = "returned" =>
        \A e \in DOMAIN weight : RatLeq(Zero, weight[e]) /\ RatLeq(weight[e], One)

\* C3: where the largest and the smallest p over a node's successors differ,
\* the weight of each of its out-edges is (p - min) / (max - min), for the
\* true minimum and maximum.
C3_MinMaxNormalised ==
    pc = "returned" =>
        \A e \in EdgesOf(network) :
            LET items == WeightItems(network, e[1])
                num == ProbNum(network, e[1], e[2])
            IN  MaxOf(items) # MinOf(items) =>
                    weight[e] = Rat(num - MinOf(items), MaxOf(items) - MinOf(items))

\* C4: where the successors of a node have total out-degree zero, or all the
\* same p (a single successor included), each of its out-edges has weight 0.
C4_DegenerateWeightIsZero ==
    pc = "returned" =>
        \A e \in EdgesOf(network) :
            LET items == WeightItems(network, e[1])
            IN  (TotalDegree(network, e[1]) = 0 \/ MaxOf(items) = MinOf(items)) =>
                    weight[e] = Zero

\* C23: the graph calculate_weights returns has the nodes and the directed
\* edges of its input, with a weight for each edge, and the call leaves the
\* input graph as it was: same nodes and edges, and still without weights.
C23_WeightsOnlyOnTheCopy ==
    [][/\ input_network' = input_network
       /\ input_weight' = input_weight
       /\ pc' = "returned" =>
             /\ NodesOf(network') = NodesOf(input_network)
             /\ EdgesOf(network') = EdgesOf(input_network)
             /\ DOMAIN weight' = EdgesOf(input_network)]_vars

\* a call on a three-node graph has returned nonzero weights
C23_Witness ==
    /\ pc = "returned"
    /\ Cardinality(NodesOf(network)) = 3
    /\ \E e \in EdgesOf(network) : weight[e] # Zero
    /\ input_weight = <<>>

(***************************************************************************)
(* Properties of the strategies, checked under SpecSweep and SpecFilter.   *)
(***************************************************************************)
\* C5: the quarantine list of a simulated level e is the first
\* max(0, floor(len * e / 100) - 1) candidates; none when the floor is 0.
C5_QuarantineListIsPrefix ==
    strategy.supplied =>
        LET count == Floor100(Len(candidates) * Last(simulated)) - 1
        IN  strategy.list = SubSeq(candidates, 1, IF count > 0 THEN count ELSE 0)

\* C6: the rows of a finished sweep are those of the efforts 0, 5, ..., 100.
C6_LevelsZeroToHundred ==
    pc = "closed" =>
        [k \in 1..Len(rows) |-> rows[k].effort] = [k \in 1..21 |-> 5 * (k - 1)]

Matches(e) == (filterI => e.international) /\ (filterQ => ~e.international)

\* C7: with exactly one of the two filters on, the candidate list holds
\* exactly the edges the filter admits, in their order.
C7_FilterKeepsExactlyMatching ==
    (pc # "filter" /\ filterI # filterQ) =>
        /\ pc = "filtered"
        /\ candidates = SelectSeq(unfiltered, Matches)

\* C18: with both filters requested on a network that has edges, the
\* ranking ends in an error and hands no candidate list to the sweep.
C18_BothFiltersRejected ==
    (filterI /\ filterQ /\ unfiltered # <<>> /\ pc # "filter") => pc # "filtered"

====
